---- MODULE Spec2Model ----
(***************************************************************************)
(* A model of the magnesium XML scanners: ElementIterator                  *)
(* (src/src/elements.rs), TagAttributeIterator (src/src/attributes.rs) and *)
(* the substring-split helpers of src/src/lib.rs.                          *)
(*                                                                         *)
(* A &str is the sequence of its bytes.  An ASCII character is one byte,    *)
(* written as a one-character string, and the scanners are only run over   *)
(* ASCII text, where byte offsets and character offsets coincide; the      *)
(* split helpers are also run over text with characters of two and three   *)
(* bytes, each byte written as its two hexadecimal digits.  An Option is a *)
(* sequence of length at most one.  A slice expression that would be out   *)
(* of range is a panic, and is modelled as the result kind "Panic".        *)
(***************************************************************************)
EXTENDS Integers, Sequences, FiniteSets, TLC

VARIABLES
  buf,      \* the &str handed to ElementIterator::new
  pc,       \* "new" before construction, "ready" after, "panicked" after a panic
  text,     \* ElementIterator.text
  ret,      \* what the last ElementIterator::next returned
  prev,     \* ElementIterator.text as it was when the last next() was entered
  emitted,  \* the Some(..) items returned so far, in order
  nones,    \* how many times next() has returned None
  text2,    \* a second ElementIterator, built over buf without its declaration
  ret2,     \* what the second scanner's last next() returned
  abuf,     \* the &str handed to TagAttributeIterator::new
  apc,      \* as pc, for the TagAttributeIterator
  attrs,    \* TagAttributeIterator.attrs
  aret,     \* what the last TagAttributeIterator::next returned
  aprev,    \* TagAttributeIterator.attrs when the last next() was entered
  yielded,  \* the pairs returned so far, in order
  anones,   \* how many times TagAttributeIterator::next has returned None
  found,    \* the last find_by_key call: its key, its result, the pairs yielded before it
  expected, \* the pairs abuf was rendered from, when it was rendered from pairs
  filtered, \* the items returned so far by the filter_map chain over the ElementIterator
  esc,      \* the &str handed to revert_xml_encoding
  decoded,  \* what revert_xml_encoding returned, or that it panicked
  split,    \* a call of break_on_first_char or break_on_first_str: its arguments
  parts,    \* what that call returned
  tag       \* the tag the two scanners are run over in turn: its name, pairs and form

elemVars == <<buf, pc, text, ret, prev, emitted, nones>>
twinVars == <<text2, ret2>>
attrVars == <<abuf, apc, attrs, aret, aprev, yielded, anones, found, expected>>
pureVars == <<esc, decoded, split, parts>>
vars == <<elemVars, twinVars, attrVars, filtered, pureVars, tag>>

----------------------------------------------------------------------------
(* Bounds of the model.                                                    *)

MaxFrags == 3       \* fragments in an ElementIterator input
MaxDeclFrags == 4   \* fragments in an input of the declaration specification
MaxAttrFrags == 3   \* fragments in a raw TagAttributeIterator input
MaxPairs == 2       \* pairs in a rendered attribute string
MaxNones == 2       \* next() calls that are followed after the first None
MaxFilterFrags == 3 \* fragments in an input of the filter specification
MaxEscFrags == 3    \* fragments in an input of revert_xml_encoding
MaxSplitLen == 3    \* characters in an input of break_on_first_char / _str
MaxNeedleLen == 2   \* characters in a needle of break_on_first_str
MaxTagPairs == 2    \* attribute pairs in a tag the two scanners are run over

----------------------------------------------------------------------------
(* &str primitives of core::str, as used by the crate.                     *)

\* &s[n..]
Drop(s, n) == SubSeq(s, n + 1, Len(s))

\* &s[..n]
Take(s, n) == SubSeq(s, 1, n)

\* whether &s[n..] (or &s[..n]) is in range; out of range panics
CanSlice(s, n) == 0 <= n /\ n <= Len(s)

starts_with(s, p) == Len(p) <= Len(s) /\ Take(s, Len(p)) = p

ends_with(s, p) == Len(p) <= Len(s) /\ Drop(s, Len(s) - Len(p)) = p

\* char::is_whitespace, on the characters of the model's alphabets
is_whitespace(c) == c \in {" ", "\t", "\n", "\r"}

RECURSIVE trim_start(_)
trim_start(s) ==
  IF s /= <<>> /\ is_whitespace(Head(s)) THEN trim_start(Tail(s)) ELSE s

RECURSIVE trim_end(_)
trim_end(s) ==
  IF s /= <<>> /\ is_whitespace(s[Len(s)]) THEN trim_end(Take(s, Len(s) - 1)) ELSE s

trim(s) == trim_end(trim_start(s))

NoneOpt == <<>>

\* str::find: Some(offset of the first occurrence), offsets counted from 0
find(s, needle) ==
  LET hits == {i \in 0..(Len(s) - Len(needle)) : SubSeq(s, i + 1, i + Len(needle)) = needle}
  IN IF hits = {} THEN NoneOpt
     ELSE <<CHOOSE i \in hits : \A j \in hits : i <= j>>

Range(s) == {s[i] : i \in 1..Len(s)}

\* str::split_at
split_at(s, mid) == <<Take(s, mid), Drop(s, mid)>>

\* char::encode_utf8: the bytes of c; one byte for every ASCII character
encode_utf8(c) ==
  CASE c = "U+00E3" -> <<"C3", "A3">>
    [] c = "U+00E9" -> <<"C3", "A9">>
    [] c = "U+20AC" -> <<"E2", "82", "AC">>
    [] OTHER -> <<c>>

----------------------------------------------------------------------------
(* src/src/lib.rs                                                          *)

break_on_first_char_one_byte(input, c) ==
  LET b == find(input, encode_utf8(c))
  IN IF b = NoneOpt THEN NoneOpt
     ELSE LET ht == split_at(input, b[1])
          IN << <<ht[1], Drop(ht[2], 1)>> >>

break_on_first_char(input, c) ==
  LET b == find(input, encode_utf8(c))
  IN IF b = NoneOpt THEN NoneOpt
     ELSE LET utf8_bytes_this_char == Len(encode_utf8(c))
              ht == split_at(input, b[1])
          IN << <<ht[1], Drop(ht[2], utf8_bytes_this_char)>> >>

break_on_first_str(input, needle) ==
  LET b == find(input, needle)
  IN IF b = NoneOpt THEN NoneOpt
     ELSE LET ht == split_at(input, b[1])
          IN << <<ht[1], Drop(ht[2], Len(needle))>> >>

Ok(out) == [kind |-> "Ok", out |-> out]

\* the function panicked: no String is returned
Panicked == [kind |-> "Panic", out |-> <<>>]

RECURSIVE expect_chars_unchecked(_, _)
expect_chars_unchecked(chars, want) ==
  IF want = <<>> THEN <<chars>>
  ELSE IF chars = <<>> THEN NoneOpt
  ELSE expect_chars_unchecked(Tail(chars), Tail(want))

\* assert_eq!(chars.next().unwrap(), w) for each w of want, in turn: the
\* characters left, or nothing when an unwrap or an assert_eq! panics
RECURSIVE expect_chars(_, _)
expect_chars(chars, want) ==
  IF want = <<>> THEN <<chars>>
  ELSE IF chars = <<>> THEN NoneOpt
  ELSE IF Head(chars) /= Head(want) THEN NoneOpt
  ELSE expect_chars(Tail(chars), Tail(want))

\* the match on the character after `&`: the character to push and the
\* characters left, or nothing when the arm panics
escape_arm(chars) ==
  IF chars = <<>> THEN NoneOpt
  ELSE LET arm(want, c) ==
             LET e == expect_chars(Tail(chars), want)
             IN IF e = NoneOpt THEN NoneOpt ELSE <<[push |-> c, chars |-> e[1]]>>
       IN CASE Head(chars) = "l" -> arm(<<"t", ";">>, "<")
            [] Head(chars) = "g" -> arm(<<"t", ";">>, ">")
            [] Head(chars) = "a" -> arm(<<"m", "p", ";">>, "&")
            [] OTHER -> NoneOpt

\* the while let loop, from the characters still to read and the String
\* built so far
RECURSIVE revert_loop(_, _)
revert_loop(chars, out) ==
  IF chars = <<>> THEN Ok(out)
  ELSE IF Head(chars) /= "&" THEN revert_loop(Tail(chars), Append(out, Head(chars)))
  ELSE LET e == escape_arm(Tail(chars))
       IN IF e = NoneOpt THEN Panicked
          ELSE revert_loop(e[1].chars, Append(out, e[1].push))

revert_xml_encoding(t) == revert_loop(t, <<>>)

----------------------------------------------------------------------------
(* src/src/elements.rs                                                     *)

Empty == <<>>

StartTag(name, as) == [kind |-> "StartTag", name |-> name, attrs |-> as, text |-> Empty]
EndTag(name) == [kind |-> "EndTag", name |-> name, attrs |-> Empty, text |-> Empty]
EmptyTag(name, as) == [kind |-> "EmptyTag", name |-> name, attrs |-> as, text |-> Empty]
Text(t) == [kind |-> "Text", name |-> Empty, attrs |-> Empty, text |-> t]
Comment(t) == [kind |-> "Comment", name |-> Empty, attrs |-> Empty, text |-> t]

\* the three outcomes of a call that returns no element
None == [kind |-> "None", name |-> Empty, attrs |-> Empty, text |-> Empty]
Panic == [kind |-> "Panic", name |-> Empty, attrs |-> Empty, text |-> Empty]
NoCall == [kind |-> "NoCall", name |-> Empty, attrs |-> Empty, text |-> Empty]

CDATA_OPEN == <<"<", "!", "C", "D", "A", "T", "A", "[">>
CDATA_CLOSE == <<"]", "]", ">">>
COMMENT_OPEN == <<"<", "!", "-", "-">>
COMMENT_CLOSE == <<"-", "-", ">">>
DECL_OPEN == <<"<", "?", "x", "m", "l">>
DECL_CLOSE == <<"?", ">">>

trim_xml_declaration_no_trim(t) ==
  LET tt == trim(t)
  IN IF starts_with(tt, DECL_OPEN)
     THEN LET b == break_on_first_str(trim_start(tt), DECL_CLOSE)
          IN IF b = NoneOpt THEN NoneOpt ELSE <<b[1][2]>>
     ELSE <<tt>>

trim_xml_declaration_start_only(t) ==
  LET tt == trim_start(t)
  IN IF starts_with(tt, DECL_OPEN)
     THEN LET b == break_on_first_str(trim_start(tt), DECL_CLOSE)
          IN IF b = NoneOpt THEN NoneOpt ELSE <<trim_start(b[1][2])>>
     ELSE <<tt>>

trim_xml_declaration(t) ==
  LET tt == trim(t)
  IN IF starts_with(tt, DECL_OPEN)
     THEN LET b == break_on_first_str(trim_start(tt), DECL_CLOSE)
          IN IF b = NoneOpt THEN NoneOpt ELSE <<trim_start(b[1][2])>>
     ELSE <<tt>>

ElementIterator_new_keep(t) ==
  LET r == trim_xml_declaration(t) IN IF r = NoneOpt THEN t ELSE r[1]

\* ElementIterator::new: unwrap_or_default turns a failed trim into ""
ElementIterator_new(t) ==
  LET r == trim_xml_declaration(t) IN IF r = NoneOpt THEN Empty ELSE r[1]

clear_and_return_none_keep(t) == [text |-> t, ret |-> None]

\* the code after the 'clear_and_return_none loop
clear_and_return_none(t) == [text |-> Empty, ret |-> None]

\* a slice out of range unwinds before self.text is assigned
panic_out(t) == [text |-> t, ret |-> Panic]

next_cdata_keep_marker(t) ==
  LET b == break_on_first_str(t, CDATA_CLOSE)
  IN IF b = NoneOpt THEN clear_and_return_none(t)
     ELSE [text |-> b[1][2], ret |-> Text(b[1][1])]

next_cdata(t) ==
  LET b == break_on_first_str(t, CDATA_CLOSE)
  IN IF b = NoneOpt THEN clear_and_return_none(t)
     ELSE IF ~CanSlice(b[1][1], 8) THEN panic_out(t)
     ELSE [text |-> b[1][2], ret |-> Text(Drop(b[1][1], 8))]

next_comment(t) ==
  LET b == break_on_first_str(t, COMMENT_CLOSE)
  IN IF b = NoneOpt THEN clear_and_return_none(t)
     ELSE IF ~CanSlice(b[1][1], 4) THEN panic_out(t)
     ELSE [text |-> b[1][2], ret |-> Comment(Drop(b[1][1], 4))]

empty_tag_trimmed(tag_text) ==
  LET b == break_on_first_char(tag_text, " ")
      na == IF b = NoneOpt THEN <<Take(tag_text, Len(tag_text) - 1), <<"/">> >> ELSE b[1]
  IN EmptyTag(na[1], trim(Take(na[2], Len(na[2]) - 1)))

\* the EmptyTag arm; entered only when tag_text ends with '/'
empty_tag(tag_text) ==
  LET b == break_on_first_char(tag_text, " ")
      na == IF b = NoneOpt THEN <<Take(tag_text, Len(tag_text) - 1), <<"/">> >> ELSE b[1]
  IN IF ~CanSlice(na[2], Len(na[2]) - 1) THEN Panic
     ELSE EmptyTag(na[1], Take(na[2], Len(na[2]) - 1))

end_tag(tag_text) ==
  IF ~CanSlice(tag_text, 1) THEN Panic ELSE EndTag(Drop(tag_text, 1))

start_tag_no_split(tag_text) == StartTag(tag_text, Empty)

\* the StartTag arm
start_tag(tag_text) ==
  LET b == break_on_first_char(tag_text, " ")
      na == IF b = NoneOpt THEN <<tag_text, Empty>> ELSE b[1]
  IN StartTag(na[1], na[2])

tag_of_end_first(tag_text) ==
  IF starts_with(tag_text, <<"/">>) THEN end_tag(tag_text)
  ELSE IF ends_with(tag_text, <<"/">>) THEN empty_tag(tag_text)
  ELSE start_tag(tag_text)

\* the if / else if / else over tag_text
tag_of(tag_text) ==
  IF ends_with(tag_text, <<"/">>) THEN empty_tag(tag_text)
  ELSE IF starts_with(tag_text, <<"/">>) THEN end_tag(tag_text)
  ELSE start_tag(tag_text)

next_tag(t) ==
  LET b == break_on_first_char(t, ">")
  IN IF b = NoneOpt THEN clear_and_return_none(t)
     ELSE IF ~CanSlice(b[1][1], 1) THEN panic_out(t)
     ELSE LET r == tag_of(Drop(b[1][1], 1))
          IN [text |-> b[1][2], ret |-> r]

next_text_one_char(t) ==
  LET f == find(t, <<"<">>)
      text_end_byte == IF f = NoneOpt THEN Len(t) ELSE f[1]
      hr == split_at(t, text_end_byte)
  IN [text |-> Drop(t, 1), ret |-> Text(hr[1])]

next_text_trimmed(t) ==
  LET f == find(t, <<"<">>)
      text_end_byte == IF f = NoneOpt THEN Len(t) ELSE f[1]
      hr == split_at(t, text_end_byte)
  IN [text |-> hr[2], ret |-> Text(trim(hr[1]))]

next_text(t) ==
  LET f == find(t, <<"<">>)
      text_end_byte == IF f = NoneOpt THEN Len(t) ELSE f[1]
      hr == split_at(t, text_end_byte)
  IN [text |-> hr[2], ret |-> Text(hr[1])]

\* ElementIterator::next: the new self.text and the value returned
ElementIterator_next(t) ==
  IF t = Empty THEN [text |-> t, ret |-> None]
  ELSE IF starts_with(t, CDATA_OPEN) THEN next_cdata(t)
  ELSE IF starts_with(t, COMMENT_OPEN) THEN next_comment(t)
  ELSE IF starts_with(t, <<"<">>) THEN next_tag(t)
  ELSE next_text(t)

skip_empty_text_elements_trimming(el) ==
  IF el.kind = "Text"
  THEN IF trim(el.text) = Empty THEN NoneOpt ELSE <<Text(trim(el.text))>>
  ELSE <<el>>

skip_empty_text_elements(el) ==
  IF el.kind = "Text"
  THEN IF trim(el.text) = Empty THEN NoneOpt ELSE <<Text(el.text)>>
  ELSE <<el>>

skip_comments(el) == IF el.kind = "Comment" THEN NoneOpt ELSE <<el>>

\* next() of ElementIterator .filter_map(skip_empty_text_elements)
\* .filter_map(skip_comments): the inner iterator is pulled until an element
\* passes both functions or the inner iterator returns None (or panics);
\* pulled collects the elements pulled from the inner iterator on the way
RECURSIVE filter_map_next(_, _)
filter_map_next(t, pulled) ==
  LET r == ElementIterator_next(t)
  IN IF r.ret \in {None, Panic}
     THEN [text |-> r.text, ret |-> r.ret, pulled |-> pulled]
     ELSE LET e1 == skip_empty_text_elements(r.ret)
              e2 == IF e1 = NoneOpt THEN NoneOpt ELSE skip_comments(e1[1])
          IN IF e2 = NoneOpt
             THEN filter_map_next(r.text, Append(pulled, r.ret))
             ELSE [text |-> r.text, ret |-> e2[1], pulled |-> Append(pulled, r.ret)]

----------------------------------------------------------------------------
(* src/src/attributes.rs                                                   *)

TagAttribute(key, value) == [kind |-> "Some", key |-> key, value |-> value]
ANone == [kind |-> "None", key |-> Empty, value |-> Empty]
APanic == [kind |-> "Panic", key |-> Empty, value |-> Empty]
ANoCall == [kind |-> "NoCall", key |-> Empty, value |-> Empty]

TagAttributeIterator_new_no_trim(a) == a

\* #[derive(Default)]: attrs is <&str>::default(), the empty string
TagAttributeIterator_default == Empty

TagAttributeIterator_new(a) == trim(a)

attr_clear_keep(a) == [attrs |-> a, ret |-> ANone]

\* the code after the 'clear_and_return_none loop
attr_clear(a) == [attrs |-> Empty, ret |-> ANone]

\* the guard of the quote_marker match arm
is_quote(q) == q = "'" \/ q = "\""

\* the body of the loop once `=` has been found
next_pair_no_trim(key, rest) ==
  IF rest = Empty \/ ~is_quote(Head(rest)) THEN attr_clear(rest)
  ELSE LET quote_marker == Head(rest)
           b == break_on_first_char(Drop(rest, 1), quote_marker)
       IN IF b = NoneOpt THEN attr_clear(rest)
          ELSE [attrs |-> b[1][2], ret |-> TagAttribute(key, b[1][1])]

next_pair(key, rest) ==
  IF rest = Empty \/ ~is_quote(Head(rest)) THEN attr_clear(rest)
  ELSE LET quote_marker == Head(rest)
           b == break_on_first_char(Drop(rest, 1), quote_marker)
       IN IF b = NoneOpt THEN attr_clear(rest)
          ELSE [attrs |-> trim_start(b[1][2]), ret |-> TagAttribute(key, b[1][1])]

\* TagAttributeIterator::next: the new self.attrs and the value returned
TagAttributeIterator_next(a) ==
  IF a /= trim(a) THEN [attrs |-> a, ret |-> APanic]
  ELSE IF a = Empty THEN [attrs |-> a, ret |-> ANone]
  ELSE LET b == break_on_first_char(a, "=")
       IN IF b = NoneOpt THEN attr_clear(a)
          ELSE next_pair(b[1][1], b[1][2])

\* Iterator::find over the iterator it is given: where the iterator stops
\* and the value found
RECURSIVE iter_find(_, _)
iter_find(a, key) ==
  LET r == TagAttributeIterator_next(a)
  IN IF r.ret.kind /= "Some" THEN [attrs |-> r.attrs, ret |-> NoneOpt]
     ELSE IF r.ret.key = key THEN [attrs |-> r.attrs, ret |-> <<r.ret.value>>]
     ELSE iter_find(r.attrs, key)

find_by_key_from_start(a, key) ==
  [attrs |-> a, ret |-> iter_find(TagAttributeIterator_new(abuf), key).ret]

find_by_key_no_clone(a, key) == iter_find(a, key)

\* find_by_key: self.attrs afterwards (the search runs on a clone) and the
\* value returned
find_by_key(a, key) == [attrs |-> a, ret |-> iter_find(a, key).ret]

----------------------------------------------------------------------------
(* Vocabulary of the properties of ElementIterator::next, stated on the    *)
(* text the call was entered with.                                         *)

Occurs(s, needle) ==
  \E i \in 1..(Len(s) - Len(needle) + 1) : SubSeq(s, i, i + Len(needle) - 1) = needle

\* position of the first occurrence of needle in s, counted from 1
FirstAt(s, needle) ==
  CHOOSE i \in 1..(Len(s) - Len(needle) + 1) :
    /\ SubSeq(s, i, i + Len(needle) - 1) = needle
    /\ \A j \in 1..(i - 1) : SubSeq(s, j, j + Len(needle) - 1) /= needle

Before(s, needle) == SubSeq(s, 1, FirstAt(s, needle) - 1)

After(s, needle) == SubSeq(s, FirstAt(s, needle) + Len(needle), Len(s))

IsComment(s) == starts_with(s, COMMENT_OPEN)
IsCData(s) == starts_with(s, CDATA_OPEN)
IsTag(s) == starts_with(s, <<"<">>) /\ ~IsComment(s) /\ ~IsCData(s)

\* the text between `<` and the first `>`
TagText(s) == Tail(Before(s, <<">">>))

Unterminated(s) ==
  \/ starts_with(s, <<"<">>) /\ ~Occurs(s, <<">">>)
  \/ IsComment(s) /\ ~Occurs(s, COMMENT_CLOSE)
  \/ IsCData(s) /\ ~Occurs(s, CDATA_CLOSE)

----------------------------------------------------------------------------
(* Input texts: concatenations of a few fragments.                         *)

RECURSIVE Flatten(_)
Flatten(ss) == IF ss = <<>> THEN <<>> ELSE Head(ss) \o Flatten(Tail(ss))

FragSeqs(F, n) == UNION {[1..k -> F] : k \in 0..n}

Texts(F, n) == {Flatten(fs) : fs \in FragSeqs(F, n)}

ElemFrags ==
  { <<"<">>, <<">">>, <<"/">>, <<" ">>, <<"a">>, <<"-">>,
    <<"<", "a", " ">>, <<"b", " ">>, <<"/", ">">>, <<"<", "/">>,
    COMMENT_OPEN, COMMENT_CLOSE, CDATA_OPEN, CDATA_CLOSE }

ElemInputs == Texts(ElemFrags, MaxFrags)

DeclFrags ==
  { DECL_OPEN, DECL_CLOSE, DECL_OPEN \o DECL_CLOSE,
    <<" ">>, <<"\n">>, <<"<">>, <<">">>, <<"a">>, <<"<", "a", ">">> }

DeclInputs == Texts(DeclFrags, MaxDeclFrags)

AttrFrags ==
  { <<"k">>, <<"=">>, <<"\"">>, <<"'">>, <<" ">>,
    <<"k", "=", "\"", "v", "\"">>, <<"j", "=", "'", "\"", "'">> }

AttrInputs == Texts(AttrFrags, MaxAttrFrags)

FilterFrags ==
  { <<"<", "a", ">", " ">>, COMMENT_OPEN \o <<" ">> \o COMMENT_CLOSE,
    <<" ", "a", " ">>, <<"<", "/", "a", ">">>, <<"\n">>, <<"<">>, <<"x">> }

FilterInputs == Texts(FilterFrags, MaxFilterFrags)

EscFrags ==
  { <<"&">>, <<"l">>, <<"t">>, <<";">>, <<"x">>, <<"a">>,
    <<"&", "l", "t", ";">>, <<"&", "g", "t", ";">>, <<"&", "a", "m", "p", ";">>,
    <<"l", "t", ";">>, <<"&", "a", "m">>, <<"&", "g">> }

EscInputs == Texts(EscFrags, MaxEscFrags)

\* characters of one, two and three bytes; two of them share their first byte
SplitChars == { "a", "=", "U+00E3", "U+00E9", "U+20AC" }

\* the strings of at most n characters, each as the sequence of its characters
Strs(n) == UNION {[1..k -> SplitChars] : k \in 0..n}

\* the bytes of a string given as the sequence of its characters
Utf8(cs) == Flatten([i \in 1..Len(cs) |-> encode_utf8(cs[i])])

FindKeys == { <<"k">>, <<"j">>, <<"j", "'", " ">> }

----------------------------------------------------------------------------
(* The ElementIterator, driven by a caller.                                *)

NotFound ==
  [called |-> FALSE, key |-> Empty, ret |-> NoneOpt, at |-> 0, ended |-> FALSE,
   before |-> Empty, after |-> Empty]

ElemIdle ==
  /\ buf = Empty /\ pc = "idle" /\ text = Empty /\ ret = NoCall
  /\ prev = Empty /\ emitted = <<>> /\ nones = 0

TwinIdle == text2 = Empty /\ ret2 = NoCall

Pending == [kind |-> "Pending", out |-> Empty]

NoParts == [done |-> FALSE, ret |-> NoneOpt]

NoSplit == [fn |-> "none", chars |-> Empty, delim |-> Empty]

PureIdle == esc = Empty /\ decoded = Pending /\ split = NoSplit /\ parts = NoParts

FilterIdle == filtered = <<>>

NoTag == [name |-> Empty, pairs |-> <<>>, form |-> "none"]

TagIdle == tag = NoTag

AttrIdle ==
  /\ abuf = Empty /\ apc = "idle" /\ attrs = Empty /\ aret = ANoCall
  /\ aprev = Empty /\ yielded = <<>> /\ anones = 0
  /\ found = NotFound
  /\ expected = NoneOpt

InitElem ==
  /\ buf \in ElemInputs
  /\ pc = "new" /\ text = Empty /\ ret = NoCall
  /\ prev = Empty /\ emitted = <<>> /\ nones = 0
  /\ TwinIdle /\ AttrIdle /\ FilterIdle /\ PureIdle /\ TagIdle

\* let it = ElementIterator::new(buf)
ElemNew ==
  /\ pc = "new"
  /\ text' = ElementIterator_new(buf)
  /\ pc' = "ready"
  /\ UNCHANGED <<buf, ret, prev, emitted, nones, twinVars, attrVars, filtered, pureVars, tag>>

\* it.next()
ElemNext ==
  /\ pc = "ready"
  /\ nones <= MaxNones
  /\ LET r == ElementIterator_next(text)
     IN /\ text' = r.text
        /\ ret' = r.ret
        /\ pc' = IF r.ret = Panic THEN "panicked" ELSE "ready"
        /\ emitted' = IF r.ret \in {None, Panic} THEN emitted ELSE Append(emitted, r.ret)
        /\ nones' = IF r.ret = None THEN nones + 1 ELSE nones
  /\ prev' = text
  /\ UNCHANGED <<buf, twinVars, attrVars, filtered, pureVars, tag>>

NextElem == ElemNew \/ ElemNext

SpecElem == InitElem /\ [][NextElem]_vars

----------------------------------------------------------------------------
(* The ElementIterator behind the two filters, driven by a caller:         *)
(* ElementIterator::new(buf).filter_map(skip_empty_text_elements)          *)
(* .filter_map(skip_comments).  emitted holds what the inner iterator      *)
(* returned, filtered what the chain returned.                             *)

InitFilter ==
  /\ buf \in FilterInputs
  /\ pc = "new" /\ text = Empty /\ ret = NoCall
  /\ prev = Empty /\ emitted = <<>> /\ nones = 0
  /\ TwinIdle /\ AttrIdle /\ FilterIdle /\ PureIdle /\ TagIdle

\* chain.next()
FilterNext ==
  /\ pc = "ready"
  /\ nones <= MaxNones
  /\ LET r == filter_map_next(text, <<>>)
     IN /\ text' = r.text
        /\ ret' = r.ret
        /\ pc' = IF r.ret = Panic THEN "panicked" ELSE "ready"
        /\ emitted' = emitted \o r.pulled
        /\ filtered' = IF r.ret \in {None, Panic} THEN filtered ELSE Append(filtered, r.ret)
        /\ nones' = IF r.ret = None THEN nones + 1 ELSE nones
  /\ prev' = text
  /\ UNCHANGED <<buf, twinVars, attrVars, pureVars, tag>>

NextFilter == ElemNew \/ FilterNext

SpecFilter == InitFilter /\ [][NextFilter]_vars

----------------------------------------------------------------------------
(* Two ElementIterators side by side: one over buf, one over buf with its  *)
(* leading declaration cut out; every step calls next() on both.           *)

\* buf begins, after optional whitespace, with `<?xml` ... `?>`
HasDeclaration(b) == starts_with(trim_start(b), DECL_OPEN) /\ Occurs(b, DECL_CLOSE)

\* the whitespace buf begins with
LeadingSpace(b) == SubSeq(b, 1, Len(b) - Len(trim_start(b)))

\* buf without its declaration: everything from `<?xml` through the first
\* `?>` removed
WithoutDeclaration(b) ==
  IF HasDeclaration(b) THEN LeadingSpace(b) \o After(b, DECL_CLOSE) ELSE b

InitDecl ==
  /\ buf \in DeclInputs
  /\ pc = "new" /\ text = Empty /\ ret = NoCall
  /\ prev = Empty /\ emitted = <<>> /\ nones = 0
  /\ TwinIdle /\ AttrIdle /\ FilterIdle /\ PureIdle /\ TagIdle

\* let it = ElementIterator::new(buf);
\* let it2 = ElementIterator::new(buf without its declaration)
DeclNew ==
  /\ pc = "new"
  /\ text' = ElementIterator_new(buf)
  /\ text2' = ElementIterator_new(WithoutDeclaration(buf))
  /\ pc' = "ready"
  /\ UNCHANGED <<buf, ret, prev, emitted, nones, ret2, attrVars, filtered, pureVars, tag>>

\* it.next(); it2.next()
DeclNext ==
  /\ pc = "ready"
  /\ nones <= MaxNones
  /\ LET r == ElementIterator_next(text)
         r2 == ElementIterator_next(text2)
     IN /\ text' = r.text
        /\ ret' = r.ret
        /\ text2' = r2.text
        /\ ret2' = r2.ret
        /\ pc' = IF r.ret = Panic \/ r2.ret = Panic THEN "panicked" ELSE "ready"
        /\ emitted' = IF r.ret \in {None, Panic} THEN emitted ELSE Append(emitted, r.ret)
        /\ nones' = IF r.ret = None THEN nones + 1 ELSE nones
  /\ prev' = text
  /\ UNCHANGED <<buf, attrVars, filtered, pureVars, tag>>

NextDecl == DeclNew \/ DeclNext

SpecDecl == InitDecl /\ [][NextDecl]_vars

----------------------------------------------------------------------------
(* The TagAttributeIterator, driven by a caller.  Its input is either any  *)
(* text of AttrInputs, or a text rendered from a list of well-formed       *)
(* pairs, which `expected` then remembers.                                 *)

PairKeys == { <<"k">>, <<"j", "'", " ">> }
PairValues == { Empty, <<"v">>, <<"'">>, <<"\"">> }
Quotes == { "'", "\"" }

WellFormedPairs ==
  { p \in [key : PairKeys, value : PairValues, quote : Quotes] : p.quote \notin Range(p.value) }

\* leading, separating and trailing whitespace of a rendered text
Spacings ==
  { [lead |-> Empty, sep |-> <<" ">>, trail |-> Empty],
    [lead |-> <<" ">>, sep |-> <<"\t", "\n">>, trail |-> <<"\r", "\n">>],
    [lead |-> <<"\n", "\t">>, sep |-> <<" ", " ">>, trail |-> <<" ">>] }

RenderPair(p) == p.key \o <<"=", p.quote>> \o p.value \o <<p.quote>>

RECURSIVE RenderPairs(_, _)
RenderPairs(ps, sep) ==
  IF ps = <<>> THEN <<>>
  ELSE IF Len(ps) = 1 THEN RenderPair(ps[1])
  ELSE RenderPair(ps[1]) \o sep \o RenderPairs(Tail(ps), sep)

Render(ps, sp) == sp.lead \o RenderPairs(ps, sp.sep) \o sp.trail

AttrStart ==
  /\ apc = "new" /\ attrs = Empty /\ aret = ANoCall
  /\ aprev = Empty /\ yielded = <<>> /\ anones = 0
  /\ found = NotFound
  /\ ElemIdle /\ TwinIdle /\ FilterIdle /\ PureIdle /\ TagIdle

InitAttrRaw ==
  /\ abuf \in AttrInputs
  /\ expected = NoneOpt
  /\ AttrStart

InitAttrPairs ==
  /\ \E ps \in FragSeqs(WellFormedPairs, MaxPairs), sp \in Spacings :
       /\ abuf = Render(ps, sp)
       /\ expected = <<ps>>
  /\ AttrStart

InitAttr == InitAttrRaw \/ InitAttrPairs

\* let it = TagAttributeIterator::new(abuf)
AttrNew ==
  /\ apc = "new"
  /\ attrs' = TagAttributeIterator_new(abuf)
  /\ apc' = "ready"
  /\ UNCHANGED <<abuf, aret, aprev, yielded, anones, found, expected, elemVars, twinVars, filtered, pureVars, tag>>

\* let it = TagAttributeIterator::default(): there is no text to scan, which
\* abuf = "" stands for
AttrDefault ==
  /\ apc = "new"
  /\ abuf = Empty
  /\ attrs' = TagAttributeIterator_default
  /\ apc' = "ready"
  /\ UNCHANGED <<abuf, aret, aprev, yielded, anones, found, expected, elemVars, twinVars, filtered, pureVars, tag>>

\* it.next()
AttrNext ==
  /\ apc = "ready"
  /\ anones <= MaxNones
  /\ LET r == TagAttributeIterator_next(attrs)
     IN /\ attrs' = r.attrs
        /\ aret' = r.ret
        /\ apc' = IF r.ret = APanic THEN "panicked" ELSE "ready"
        /\ yielded' = IF r.ret.kind = "Some" THEN Append(yielded, r.ret) ELSE yielded
        /\ anones' = IF r.ret = ANone THEN anones + 1 ELSE anones
  /\ aprev' = attrs
  /\ UNCHANGED <<abuf, found, expected, elemVars, twinVars, filtered, pureVars, tag>>

\* it.find_by_key(key)
AttrFind ==
  /\ apc = "ready"
  /\ \E key \in FindKeys :
       LET r == find_by_key(attrs, key)
       IN /\ attrs' = r.attrs
          /\ found' = [called |-> TRUE, key |-> key, ret |-> r.ret, at |-> Len(yielded),
                       ended |-> anones >= 1, before |-> attrs, after |-> r.attrs]
  /\ UNCHANGED <<abuf, apc, aret, aprev, yielded, anones, expected, elemVars, twinVars, filtered, pureVars, tag>>

NextAttr == AttrNew \/ AttrDefault \/ AttrNext \/ AttrFind

SpecAttr == InitAttr /\ [][NextAttr]_vars

----------------------------------------------------------------------------
(* revert_xml_encoding, called once on a text.                             *)

InitDecode ==
  /\ esc \in EscInputs
  /\ decoded = Pending /\ split = NoSplit /\ parts = NoParts
  /\ ElemIdle /\ TwinIdle /\ AttrIdle /\ FilterIdle /\ TagIdle

\* revert_xml_encoding(esc)
Decode ==
  /\ decoded = Pending
  /\ decoded' = revert_xml_encoding(esc)
  /\ UNCHANGED <<esc, split, parts, elemVars, twinVars, attrVars, filtered, tag>>

NextDecode == Decode

SpecDecode == InitDecode /\ [][NextDecode]_vars

----------------------------------------------------------------------------
(* break_on_first_char and break_on_first_str, called once.  split holds   *)
(* the arguments as sequences of characters; the functions get their bytes.*)

InitBreak ==
  /\ split \in
       {[fn |-> "char", chars |-> s, delim |-> <<c>>] : s \in Strs(MaxSplitLen), c \in SplitChars}
       \cup {[fn |-> "str", chars |-> s, delim |-> d] : s \in Strs(MaxSplitLen), d \in Strs(MaxNeedleLen)}
  /\ parts = NoParts /\ esc = Empty /\ decoded = Pending
  /\ ElemIdle /\ TwinIdle /\ AttrIdle /\ FilterIdle /\ TagIdle

\* break_on_first_char(input, c)
BreakChar ==
  /\ split.fn = "char" /\ ~parts.done
  /\ parts' = [done |-> TRUE, ret |-> break_on_first_char(Utf8(split.chars), split.delim[1])]
  /\ UNCHANGED <<split, esc, decoded, elemVars, twinVars, attrVars, filtered, tag>>

\* break_on_first_str(input, needle)
BreakStr ==
  /\ split.fn = "str" /\ ~parts.done
  /\ parts' = [done |-> TRUE, ret |-> break_on_first_str(Utf8(split.chars), Utf8(split.delim))]
  /\ UNCHANGED <<split, esc, decoded, elemVars, twinVars, attrVars, filtered, tag>>

NextBreak == BreakChar \/ BreakStr

SpecBreak == InitBreak /\ [][NextBreak]_vars

----------------------------------------------------------------------------
(* The two scanners one after the other: an ElementIterator over a buffer  *)
(* that is one tag, then a TagAttributeIterator over the attrs of the      *)
(* token it returned.  tag remembers what the buffer was written from.     *)

\* names without whitespace, `=`, `/`, `<` or `>`
TagNames ==
  { <<"a">>, Empty, <<"!", "-", "-">>, <<"!", "C", "D", "A", "T", "A", "[">>,
    <<"?", "x", "m", "l">> }

TagKeys == { <<"k">>, <<"j">> }

TagValues == { Empty, <<"a", " ", "b">>, <<"=", "/">>, <<"'">>, <<"<">> }

\* pairs whose value holds neither its own quote nor `>`
TagPairs ==
  { p \in [key : TagKeys, value : TagValues, quote : Quotes] :
      p.quote \notin Range(p.value) /\ ">" \notin Range(p.value) }

\* `>`, `/>` and ` />`
TagForms == { "start", "empty", "empty_spaced" }

RECURSIVE RenderTagPairs(_)
RenderTagPairs(ps) ==
  IF ps = <<>> THEN Empty
  ELSE <<" ">> \o RenderPair(Head(ps)) \o RenderTagPairs(Tail(ps))

RenderTag(t) ==
  <<"<">> \o t.name \o RenderTagPairs(t.pairs)
    \o (CASE t.form = "start" -> <<">">>
           [] t.form = "empty" -> <<"/", ">">>
           [] t.form = "empty_spaced" -> <<" ", "/", ">">>)

InitCompose ==
  /\ tag \in [name : TagNames, pairs : FragSeqs(TagPairs, MaxTagPairs), form : TagForms]
  /\ buf = RenderTag(tag)
  /\ pc = "new" /\ text = Empty /\ ret = NoCall
  /\ prev = Empty /\ emitted = <<>> /\ nones = 0
  /\ TwinIdle /\ AttrIdle /\ FilterIdle /\ PureIdle

\* it.next(), while no TagAttributeIterator has been made
ComposeNext == apc = "idle" /\ ElemNext

\* let attrs_it = TagAttributeIterator::new(attrs), attrs being the attrs of
\* the StartTag or EmptyTag that it.next() has just returned
ComposeAttrs ==
  /\ apc = "idle"
  /\ ret.kind \in {"StartTag", "EmptyTag"}
  /\ abuf' = ret.attrs
  /\ attrs' = TagAttributeIterator_new(ret.attrs)
  /\ apc' = "ready"
  /\ UNCHANGED <<aret, aprev, yielded, anones, found, expected, elemVars, twinVars, filtered, pureVars, tag>>

NextCompose == ElemNew \/ ComposeNext \/ ComposeAttrs \/ AttrNext

SpecCompose == InitCompose /\ [][NextCompose]_vars

----------------------------------------------------------------------------
(* Either scanner, driven by a caller.                                     *)

InitScanners == InitElem \/ InitAttr

NextScanners == NextElem \/ NextAttr

SpecScanners == InitScanners /\ [][NextScanners]_vars

----------------------------------------------------------------------------
(* Properties of ElementIterator.                                          *)

Called == pc \in {"ready", "panicked"} /\ ret /= NoCall

\* C1: neither ElementIterator::next nor TagAttributeIterator::next ever
\* panics, whatever the input text and the sequence of calls.
C1_NeverPanics == ret /= Panic /\ aret /= APanic /\ pc /= "panicked" /\ apc /= "panicked"

\* C2: entered with an unterminated tag, comment or CDATA section, next()
\* returns None and leaves the remaining buffer empty; and once a next() has
\* returned None, every later next() returns None too (the buffer stays empty
\* and nothing more is emitted).
C2_FailStopFused ==
  Called =>
    /\ Unterminated(prev) => ret = None /\ text = Empty
    /\ nones >= 1 => ret = None /\ text = Empty

\* C2 witness: one Text was emitted, the scanner then gave up on an
\* unterminated construct with bytes left over, and was called again.
C2_Witness ==
  /\ nones >= 2 /\ ret = None
  /\ emitted = <<Text(<<"a">>)>>
  /\ Unterminated(Tail(buf)) /\ Len(buf) > 2

\* C6 as stated: for a buffer that begins with a well-formed declaration,
\* the scanner over the buffer and the scanner over the buffer without the
\* declaration return the same thing at every call.
C6_SameAsStripped ==
  (HasDeclaration(buf) /\ pc /= "new") => ret = ret2

\* C6, amended: the scanner over a buffer that begins with a well-formed
\* declaration starts on the trimmed text after that declaration; and when what follows the
\* declaration does not (after optional whitespace) begin with `<?xml`
\* again, it and the scanner over the buffer without the declaration return
\* the same thing at every call.
C6_SameAsStrippedOnce ==
  (HasDeclaration(buf) /\ pc /= "new") =>
    /\ ret = NoCall => text = trim(After(buf, DECL_CLOSE))
    /\ ~starts_with(trim_start(After(buf, DECL_CLOSE)), DECL_OPEN) =>
         ret = ret2 /\ text = text2

\* C6 witness: a declaration, whitespace, then a tag, and both scanners have
\* returned that tag.
C6_Witness ==
  /\ HasDeclaration(buf) /\ pc = "ready"
  /\ After(buf, DECL_CLOSE) /= Empty
  /\ is_whitespace(Head(After(buf, DECL_CLOSE)))
  /\ ret = StartTag(<<"a">>, Empty) /\ ret2 = ret

\* C7: for a buffer whose trimmed text starts with `<?xml` and that holds no
\* `?>`, trim_xml_declaration returns None, and the scanner made by
\* ElementIterator::new is empty: every next() returns None, none panics.
C7_UnterminatedDeclaration ==
  (starts_with(trim(buf), DECL_OPEN) /\ ~Occurs(buf, DECL_CLOSE)) =>
    /\ trim_xml_declaration(buf) = NoneOpt
    /\ pc /= "new" =>
         /\ pc = "ready" /\ text = Empty /\ emitted = <<>>
         /\ ret \in {NoCall, None}

\* C7 witness: next() was called twice on the scanner over an unterminated
\* declaration followed by more text.
C7_Witness ==
  /\ starts_with(trim(buf), DECL_OPEN) /\ ~Occurs(buf, DECL_CLOSE)
  /\ Len(trim(buf)) > Len(DECL_OPEN)
  /\ nones >= 2 /\ ret = None

\* C8: a tag whose text ends with `/` is an EmptyTag; without a space its
\* name is the tag text minus the trailing `/` and attrs is empty; with a
\* space the name is the text before the first space and attrs the text
\* after it minus exactly the one trailing `/`.
C8_EmptyTag ==
  (Called /\ IsTag(prev) /\ Occurs(prev, <<">">>) /\ ends_with(TagText(prev), <<"/">>)) =>
    LET tt == TagText(prev)
    IN /\ ret.kind = "EmptyTag"
       /\ ~Occurs(tt, <<" ">>) =>
            ret.name = SubSeq(tt, 1, Len(tt) - 1) /\ ret.attrs = Empty
       /\ Occurs(tt, <<" ">>) =>
            /\ ret.name = Before(tt, <<" ">>)
            /\ ret.attrs \o <<"/">> = After(tt, <<" ">>)

\* C8 witness: `<a b />` was scanned: the space before `/>` stays in attrs.
C8_Witness ==
  /\ Called /\ IsTag(prev)
  /\ ret = EmptyTag(<<"a">>, <<"b", " ">>)

\* C9: for a tag, tag text ending with `/` gives EmptyTag (even when it
\* starts with `/`); otherwise tag text starting with `/` gives EndTag
\* named by all the text after that `/`; otherwise StartTag, split at the
\* first space (attrs empty without one); the remaining buffer is the text
\* after the first `>`.
C9_TagKinds ==
  (Called /\ IsTag(prev) /\ Occurs(prev, <<">">>)) =>
    LET tt == TagText(prev)
    IN /\ text = After(prev, <<">">>)
       /\ ends_with(tt, <<"/">>) => ret.kind = "EmptyTag"
       /\ (~ends_with(tt, <<"/">>) /\ starts_with(tt, <<"/">>)) =>
            ret = EndTag(Tail(tt))
       /\ (~ends_with(tt, <<"/">>) /\ ~starts_with(tt, <<"/">>)) =>
            /\ ret.kind = "StartTag"
            /\ Occurs(tt, <<" ">>) =>
                 ret.name = Before(tt, <<" ">>) /\ ret.attrs = After(tt, <<" ">>)
            /\ ~Occurs(tt, <<" ">>) => ret.name = tt /\ ret.attrs = Empty

\* C9 witness: `</a/>` was scanned: it both starts and ends with `/`, and
\* is an EmptyTag.
C9_Witness ==
  /\ Called /\ IsTag(prev) /\ Occurs(prev, <<">">>)
  /\ TagText(prev) = <<"/", "a", "/">>
  /\ ret = EmptyTag(<<"/", "a">>, Empty)

\* C10: entered with a buffer that starts with `<!--` and in which `-->`
\* occurs, next() returns Comment(p), p the text after the 4-byte opener and
\* before the first `-->`, and leaves the text after that `-->`.
C10_CommentPayload ==
  (Called /\ IsComment(prev) /\ Occurs(prev, COMMENT_CLOSE)) =>
    /\ ret.kind = "Comment"
    /\ COMMENT_OPEN \o ret.text = Before(prev, COMMENT_CLOSE)
    /\ text = After(prev, COMMENT_CLOSE)

----------------------------------------------------------------------------
(* Vocabulary of the properties of TagAttributeIterator.                   *)

ACalled == apc \in {"ready", "panicked"} /\ aret /= ANoCall

\* the key/value pairs of a list of well-formed pairs
RECURSIVE AsAttributes(_)
AsAttributes(ps) ==
  IF ps = <<>> THEN <<>>
  ELSE <<TagAttribute(ps[1].key, ps[1].value)>> \o AsAttributes(Tail(ps))

IsPrefix(s, t) == Len(s) <= Len(t) /\ SubSeq(t, 1, Len(s)) = s

\* what follows the first `=`
AfterEq(s) == After(s, <<"=">>)

\* a non-empty text that does not begin with key, `=`, quote, value, the
\* same quote
Malformed(s) ==
  /\ s /= Empty
  /\ \/ ~Occurs(s, <<"=">>)
     \/ AfterEq(s) = Empty
     \/ Head(AfterEq(s)) \notin Quotes
     \/ ~Occurs(Tail(AfterEq(s)), <<Head(AfterEq(s))>>)

\* C3: over a text rendered from well-formed pairs separated (and possibly
\* surrounded) by whitespace, the scanner yields exactly those pairs, in
\* order, values as written, and only then None; it yields nothing over an
\* empty or whitespace-only text.
C3_WellFormedPairs ==
  (expected /= NoneOpt /\ apc /= "new") =>
    LET want == AsAttributes(expected[1])
    IN /\ apc = "ready"
       /\ IsPrefix(yielded, want)
       /\ anones >= 1 => yielded = want
       /\ (ACalled /\ anones = 0) => aret = want[Len(yielded)]
       /\ (ACalled /\ Len(aprev) > 0) => aret.kind = "Some"

\* C3 witness: two pairs with whitespace around them were yielded, then None.
C3_Witness ==
  /\ expected /= NoneOpt /\ anones >= 1
  /\ Len(yielded) = 2 /\ yielded = AsAttributes(expected[1])
  /\ is_whitespace(Head(abuf)) /\ is_whitespace(abuf[Len(abuf)])

\* C4: entered with a malformed text (no `=`, no quote right after the
\* first `=`, or no second occurrence of the opening quote), next() returns
\* None and clears the text; after a None every later next() returns None;
\* the pairs yielded before stay as they were.  Otherwise the value runs up to
\* the next occurrence of the quote that opened it.
C4_AbortOnMalformed ==
  ACalled =>
    /\ Malformed(aprev) => aret = ANone /\ attrs = Empty
    /\ anones >= 1 => aret = ANone /\ attrs = Empty
    /\ (aprev /= Empty /\ ~Malformed(aprev)) =>
         LET q == Head(AfterEq(aprev))
             opened == Tail(AfterEq(aprev))
         IN /\ aret = TagAttribute(Before(aprev, <<"=">>), Before(opened, <<q>>))
            /\ attrs = trim_start(After(opened, <<q>>))
            /\ yielded[Len(yielded)] = aret

\* C4 witness: a pair whose value holds the other quote character was
\* yielded, the text left was malformed, and the scanner was called twice more.
C4_Witness ==
  /\ ACalled /\ anones >= 2 /\ aret = ANone
  /\ yielded = <<TagAttribute(<<"j">>, <<"\"">>)>>
  /\ Len(abuf) > Len(RenderPair([key |-> <<"j">>, value |-> <<"\"">>, quote |-> "'"]))
  /\ Malformed(trim_start(Drop(abuf, 5)))

\* the pairs yielded after the last find_by_key call whose key is the key
\* that call looked for
LaterHits ==
  { i \in (found.at + 1)..Len(yielded) : yielded[i].key = found.key }

\* C5: find_by_key leaves the remaining text as it was, and returns the
\* value of the first pair the scanner goes on to yield with that key, None
\* if it yields no such pair; whatever find_by_key calls came before.
C5_FindByKey ==
  found.called =>
    /\ found.after = found.before
    /\ LaterHits /= {} =>
         found.ret = <<yielded[CHOOSE i \in LaterHits : \A j \in LaterHits : i <= j].value>>
    /\ (LaterHits = {} /\ anones >= 1) => found.ret = NoneOpt

\* C5 witness: find_by_key("j") was called on a fresh scanner, which then
\* yielded a pair with another key before the pair with key "j".
C5_Witness ==
  /\ found.called /\ found.at = 0 /\ found.key = <<"j">>
  /\ Len(yielded) = 2 /\ yielded[1].key = <<"k">> /\ yielded[2].key = <<"j">>
  /\ found.ret = <<yielded[2].value>>

----------------------------------------------------------------------------
(* Further properties of TagAttributeIterator.                             *)

\* C19: once a TagAttributeIterator exists (made by new or by Default), and
\* after every next() and find_by_key, its text neither begins nor ends
\* with whitespace, and the debug assertion of next() has never failed.
C19_AlwaysTrimmed ==
  /\ apc /= "new" =>
       /\ attrs = Empty \/ (~is_whitespace(Head(attrs)) /\ ~is_whitespace(attrs[Len(attrs)]))
       /\ attrs = trim(attrs)
  /\ aret /= APanic /\ apc /= "panicked"

\* C19 witness: over a text with whitespace at both ends, next() yielded a
\* pair that had whitespace after it, and left a non-empty text.
C19_Witness ==
  /\ abuf /= Empty /\ is_whitespace(Head(abuf)) /\ is_whitespace(abuf[Len(abuf)])
  /\ ACalled /\ aret.kind = "Some" /\ attrs /= Empty
  /\ is_whitespace(aprev[Len(aprev) - Len(attrs)])

\* the pairs yielded before the last find_by_key call whose key is the key
\* that call looked for
EarlierHits == { i \in 1..found.at : yielded[i].key = found.key }

\* C20: find_by_key(k) called after next() has yielded a pair with key k
\* returns None when the scanner goes on to its end without yielding
\* another pair with key k; and find_by_key called after a next() has
\* returned None (the scanner finished or aborted) returns None.
C20_FindSkipsYielded ==
  found.called =>
    /\ (EarlierHits /= {} /\ LaterHits = {} /\ anones >= 1) => found.ret = NoneOpt
    /\ found.ended => found.ret = NoneOpt

\* C20 witness: the scanner yielded a pair with key k, find_by_key("k") was
\* called with text still left and returned None, and the scanner went on to
\* yield a pair with another key and then None.
C20_Witness ==
  /\ found.called /\ found.at = 1 /\ found.key = <<"k">> /\ found.before /= Empty
  /\ Len(yielded) = 2 /\ yielded[1].key = <<"k">> /\ yielded[2].key /= <<"k">>
  /\ anones >= 1 /\ found.ret = NoneOpt

----------------------------------------------------------------------------
(* Further properties of ElementIterator.                                  *)

\* C11: entered with a buffer that starts with `<!CDATA[` and holds `]]>`,
\* next() returns Text(p), p the text after the 8-byte marker and before the
\* first `]]>` (it may be empty and may hold `<` or `>`), and leaves the text
\* after that `]]>`; such a buffer is never read as a comment or a tag.
C11_CDataPayload ==
  (Called /\ IsCData(prev) /\ Occurs(prev, CDATA_CLOSE)) =>
    /\ ret.kind = "Text"
    /\ CDATA_OPEN \o ret.text = Before(prev, CDATA_CLOSE)
    /\ text = After(prev, CDATA_CLOSE)

\* C11 witness: `<!CDATA[>]]>` was scanned: the payload is `>`, which the
\* tag test would have taken for the end of a tag.
C11_Witness ==
  /\ Called /\ IsCData(prev)
  /\ ret = Text(<<">">>) /\ text = Empty

\* C12: entered with a non-empty buffer that does not start with `<`,
\* next() returns Text(t), t the non-empty text before the next `<` (all of
\* the buffer when it holds none), untrimmed, and leaves the buffer from
\* that `<` on.
C12_TextRun ==
  (Called /\ prev /= Empty /\ Head(prev) /= "<") =>
    /\ ret.kind = "Text"
    /\ ret.text /= Empty
    /\ "<" \notin Range(ret.text)
    /\ prev = ret.text \o text
    /\ text = Empty \/ Head(text) = "<"

\* C12 witness: a text run that ends in a space was returned, and a `<`
\* follows it.
C12_Witness ==
  /\ Called /\ ret.kind = "Text" /\ ~IsCData(prev)
  /\ Len(ret.text) >= 2 /\ ret.text[Len(ret.text)] = " "
  /\ text /= Empty

\* the text ElementIterator::new is to scan: what follows the declaration
\* when buf begins with one, all of buf otherwise
Document(b) == IF HasDeclaration(b) THEN After(b, DECL_CLOSE) ELSE b

\* C13: ElementIterator::new leaves no whitespace at either end of the text,
\* with or without a declaration, nor between the declaration and the first
\* construct, so the first call is not entered on whitespace and the text
\* never ends in whitespace; whitespace met between constructs is returned
\* as (the beginning of) a Text.
C13_OuterWhitespace ==
  (pc /= "new" /\ ~(starts_with(trim(buf), DECL_OPEN) /\ ~HasDeclaration(buf))) =>
    /\ ret = NoCall => text = trim(Document(buf))
    /\ (Len(emitted) = 1 /\ ret = emitted[1]) => ~is_whitespace(Head(prev))
    /\ text /= Empty => ~is_whitespace(text[Len(text)])
    /\ (Called /\ prev /= Empty /\ is_whitespace(Head(prev))) =>
         /\ emitted /= <<>> /\ ret.kind = "Text"
         /\ IsPrefix(LeadingSpace(prev), ret.text)

\* C13 witness: a declaration, whitespace, a tag and trailing whitespace:
\* the tag is the only thing returned before None.
C13_Witness ==
  /\ HasDeclaration(buf) /\ Document(buf) /= Empty
  /\ is_whitespace(Head(Document(buf))) /\ is_whitespace(buf[Len(buf)])
  /\ emitted = <<StartTag(<<"a">>, Empty)>>
  /\ nones >= 1 /\ ret = None

\* the bytes the last call consumed
Consumed == Take(prev, Len(prev) - Len(text))

\* views u then v lie in s, one after the other
InOrderIn(u, v, s) ==
  \E i \in 0..(Len(s) - Len(u)) : \E j \in (i + Len(u))..(Len(s) - Len(v)) :
    /\ SubSeq(s, i + 1, i + Len(u)) = u
    /\ SubSeq(s, j + 1, j + Len(v)) = v

\* C16: after every next() the text left is a suffix of the text the call
\* was entered with; a call that returns a token consumes at least one byte,
\* and the token's views (name then attrs, or the payload) lie one after the
\* other inside the bytes that call consumed; so the bytes consumed by two
\* calls are disjoint, two tokens share no byte, and the scanner has returned
\* no more tokens than it has consumed bytes.
C16_CursorMonotone ==
  /\ Called =>
       /\ ends_with(prev, text)
       /\ ret \notin {None, Panic} =>
            /\ Len(text) < Len(prev)
            /\ InOrderIn(ret.name, ret.attrs, Consumed)
            /\ InOrderIn(ret.text, Empty, Consumed)
  /\ pc /= "new" =>
       /\ ends_with(ElementIterator_new(buf), text)
       /\ Len(emitted) <= Len(ElementIterator_new(buf)) - Len(text)

\* C16 witness: a StartTag with a name was returned, then a Text.
C16_Witness ==
  /\ Len(emitted) = 2 /\ emitted[1].kind = "StartTag" /\ emitted[1].name /= Empty
  /\ ret = emitted[2] /\ ret.kind = "Text" /\ ret.text /= Empty

----------------------------------------------------------------------------
(* Properties of the filters.                                              *)

\* a Text whose payload is nothing but whitespace
Blank(el) == el.kind = "Text" /\ \A i \in 1..Len(el.text) : is_whitespace(el.text[i])

Kept(el) == el.kind /= "Comment" /\ ~Blank(el)

\* C14: what the chain of skip_empty_text_elements and skip_comments has
\* returned is exactly the subsequence of the scanner's tokens that are
\* neither a Comment nor a Text of whitespace only, in order and unchanged
\* (a Text that is not blank keeps its whitespace).
C14_FilterChain == filtered = SelectSeq(emitted, Kept)

\* C14 witness: the scanner returned a tag, a blank Text, a Comment and a
\* Text that begins with a space; the chain returned the tag and that Text.
C14_Witness ==
  /\ emitted = <<StartTag(<<"a">>, Empty), Text(<<" ">>), Comment(<<" ">>), Text(<<" ", "a">>)>>
  /\ filtered = <<StartTag(<<"a">>, Empty), Text(<<" ", "a">>)>>
  /\ ret = None

----------------------------------------------------------------------------
(* Properties of revert_xml_encoding.                                      *)

Escapes ==
  { [from |-> <<"&", "l", "t", ";">>, to |-> "<"],
    [from |-> <<"&", "g", "t", ";">>, to |-> ">"],
    [from |-> <<"&", "a", "m", "p", ";">>, to |-> "&"] }

\* the escapes written at position i of s
EscapesAt(s, i) ==
  {e \in Escapes : i + Len(e.from) - 1 <= Len(s) /\ SubSeq(s, i, i + Len(e.from) - 1) = e.from}

\* position i of s lies inside an escape, after its `&`
InsideEscape(s, i) ==
  \E j \in 1..(i - 1) : \E e \in EscapesAt(s, j) : i <= j + Len(e.from) - 1

\* every `&` of s begins one of the three escapes
WellEscaped(s) == \A i \in 1..Len(s) : s[i] = "&" => EscapesAt(s, i) /= {}

\* s with each escape replaced by its character, everything else as it is
Unescaped(s) ==
  LET at == SelectSeq([i \in 1..Len(s) |-> i], LAMBDA i : ~InsideEscape(s, i))
  IN [k \in 1..Len(at) |->
        IF s[at[k]] = "&" THEN (CHOOSE e \in EscapesAt(s, at[k]) : TRUE).to ELSE s[at[k]]]

\* C15: over a text whose every `&` begins `&lt;`, `&gt;` or `&amp;`,
\* revert_xml_encoding returns the text with each of those escapes replaced
\* by its character, once, and everything else copied; over any other text
\* (an `&` followed by something else, by a cut-off escape, or by nothing)
\* it panics and returns nothing.
C15_RevertXmlEncoding ==
  decoded /= Pending =>
    /\ WellEscaped(esc) => decoded = Ok(Unescaped(esc))
    /\ ~WellEscaped(esc) => decoded = Panicked

\* C15 witness: `&amp;lt;` was decoded to `&lt;`, which is not decoded again.
C15_Witness ==
  /\ esc = <<"&", "a", "m", "p", ";", "l", "t", ";">>
  /\ decoded = Ok(<<"&", "l", "t", ";">>)

----------------------------------------------------------------------------
(* Properties of both scanners.                                            *)

\* C17: a next() of either scanner that returns an item leaves a strictly
\* shorter text; a scanner has returned no more items than its input has
\* bytes; and a next() that returns no item returns None with the text
\* empty, the terminal state.
C17_Finite ==
  /\ Called =>
       /\ ret \notin {None, Panic} => Len(text) < Len(prev)
       /\ ret \in {None, Panic} => ret = None /\ text = Empty
  /\ Len(emitted) <= Len(buf)
  /\ ACalled =>
       /\ aret.kind = "Some" => Len(attrs) < Len(aprev)
       /\ aret.kind /= "Some" => aret = ANone /\ attrs = Empty
  /\ Len(yielded) <= Len(abuf)

----------------------------------------------------------------------------
(* Properties of break_on_first_char and break_on_first_str, stated on the *)
(* characters of the input and of the delimiter.                           *)

\* C18: break_on_first_char and break_on_first_str return None exactly when
\* the delimiter does not occur in the input; otherwise they return the
\* input before the first occurrence of the delimiter and the input after
\* that occurrence, so that before, delimiter, after make up the input;
\* whatever the number of bytes of the delimiter.
C18_BreakOnFirst ==
  parts.done =>
    /\ parts.ret = NoneOpt <=> ~Occurs(split.chars, split.delim)
    /\ parts.ret /= NoneOpt =>
         LET before == parts.ret[1][1]
             after == parts.ret[1][2]
         IN /\ before \o Utf8(split.delim) \o after = Utf8(split.chars)
            /\ before = Utf8(Before(split.chars, split.delim))
            /\ after = Utf8(After(split.chars, split.delim))

\* C18 witness: break_on_first_char split a text around a character of
\* three bytes that has a character of two bytes before it and one after it.
C18_Witness ==
  /\ parts.done /\ split.fn = "char"
  /\ split.chars = <<"U+00E9", "U+20AC", "U+00E3">>
  /\ parts.ret = << <<(<<"C3", "A9">>), (<<"C3", "A3">>)>> >>

----------------------------------------------------------------------------
(* Properties of the two scanners one after the other.                     *)

\* the next() calls of the ElementIterator over the tag return the token of
\* the tag first, and the TagAttributeIterator over that token's attrs
\* yields the pairs of the tag, in order, and only then None
Composes ==
  /\ ret /= Panic /\ aret /= APanic
  /\ Called =>
       /\ emitted /= <<>>
       /\ emitted[1].kind = (IF tag.form = "start" THEN "StartTag" ELSE "EmptyTag")
       /\ emitted[1].name = tag.name
  /\ apc /= "idle" =>
       /\ IsPrefix(yielded, AsAttributes(tag.pairs))
       /\ aret = ANone => yielded = AsAttributes(tag.pairs)
       /\ (ACalled /\ Len(yielded) < Len(tag.pairs)) => aret.kind = "Some"

\* C21 as stated: for every tag `<name k1="v1" ... kn="vn">`, `.../>` or
\* `... />` whose name and keys hold no whitespace, `=`, `/`, `<` or `>` and
\* whose values hold neither their quote nor `>`, the ElementIterator
\* returns the token of the tag and a TagAttributeIterator over its attrs
\* yields exactly the pairs, in order, and then None.
C21_Compose == Composes

\* the buffer is read as a comment, a CDATA section or a declaration
NotATag(name) ==
  \/ starts_with(name, Tail(COMMENT_OPEN))
  \/ starts_with(name, Tail(CDATA_OPEN))
  \/ starts_with(name, Tail(DECL_OPEN))

\* C21, amended: the same, for the tags whose name begins with none of
\* `!--`, `!CDATA[` and `?xml`.
C21_ComposeTags == ~NotATag(tag.name) => Composes

\* C21 witness: a self-closing tag with a space before `/>` and two pairs,
\* the first value holding a space and the second ending in `/`; both pairs
\* were yielded, then None.
C21_Witness ==
  /\ tag.name = <<"a">> /\ tag.form = "empty_spaced" /\ Len(tag.pairs) = 2
  /\ tag.pairs[1].value = <<"a", " ", "b">> /\ tag.pairs[2].value = <<"=", "/">>
  /\ ret.kind = "EmptyTag" /\ abuf /= Empty /\ is_whitespace(abuf[Len(abuf)])
  /\ Len(yielded) = 2 /\ aret = ANone

====
